---- MODULE Spec2Model ----
(***************************************************************************)
(* A model of KoG2P (src/g2p.py): the Hangul syllable decomposition, the   *)
(* phone stream builder graph2phone, add_phone_boundary, the rule engine   *)
(* phone2prono, the convergence loop of graph2prono, and the rule file     *)
(* loader read_rulebook.                                                   *)
(*                                                                         *)
(* A Python str is modelled as a sequence of one-character strings, so     *)
(* "k0aa" is <<"k","0","a","a">>.  Every regular expression the source     *)
(* passes to re.sub is modelled by an operator that computes what that     *)
(* expression does on such a sequence.                                     *)
(***************************************************************************)
EXTENDS Integers, Sequences, FiniteSets, TLC

VARIABLES
    \* ---- graph2prono / graph2phone / add_phone_boundary / phone2prono ----
    graphs,        \* the grapheme string, as a sequence of code points
    rule_in,       \* the rule table: patterns
    rule_out,      \* the rule table: replacements
    pc,            \* position in graph2prono and its callees
    iElement,      \* graph2phone: loop index
    phones,        \* graph2phone: the growing phone string
    romanized,     \* graph2prono: the value graph2phone returned
    ipos,          \* add_phone_boundary: loop index
    newphones,     \* add_phone_boundary: the growing output
    romanized_bd,  \* graph2prono: the value add_phone_boundary returned
    site,          \* which call of phone2prono is running: "initial" or "loop"
    rule_k,        \* phone2prono: number of rules already applied
    p2p_phones,    \* phone2prono: local variable phones
    p2p_prono,     \* phone2prono: local variable prono (Unbound before the first rule)
    prono,         \* graph2prono: prono
    prono_prev,    \* graph2prono: prono_prev
    prono_new,     \* graph2prono: prono_new
    identical,     \* graph2prono: identical
    loop_cnt,      \* graph2prono: loop_cnt
    ret,           \* the value graph2prono returned
    exc,           \* the exception that ended the call, or "none"
    run,           \* 1: the call of graph2prono; 2: its loop run again on its own output
    first_ret,     \* the value the first run returned
    \* ---- the syllable decomposition taken alone ----
    charint,       \* a code point
    ctype,         \* its class, as check_char_type computes it
    iONS, iNUC, iCOD,   \* the 1-based indices of graph2phone
    syl,           \* the phones emitted for the code point
    dec_pc,
    \* ---- read_rulebook ----
    lines,         \* the lines of the rule file (without their line terminator)
    line_i,        \* number of lines already read
    rb_rule_in, rb_rule_out,   \* the lists read_rulebook builds
    rb_pc

mainVars == <<graphs, rule_in, rule_out, pc, iElement, phones, romanized, ipos,
              newphones, romanized_bd, site, rule_k, p2p_phones, p2p_prono,
              prono, prono_prev, prono_new, identical, loop_cnt, ret, exc, run, first_ret>>
decVars == <<charint, ctype, iONS, iNUC, iCOD, syl, dec_pc>>
rbVars == <<lines, line_i, rb_rule_in, rb_rule_out, rb_pc>>
vars == <<mainVars, decVars, rbVars>>

-----------------------------------------------------------------------------
(* Bounds of the model *)

\* longest grapheme string tried
MaxLen == 3
\* passes of the convergence loop after which the model stops following a run
LoopBound == 6
\* the iteration cap an implementation with a cap would use
IterationCap == 3
\* code points tried on either side of the Hangul syllable block
Margin == 2
\* longest line of a rule file tried
MaxLineLen == 3
\* most lines of a rule file tried
MaxLines == 2

-----------------------------------------------------------------------------
(* Strings *)

\* All sequences over S of length at most n.
SeqsUpTo(S, n) == UNION {[1..k -> S] : k \in 0..n}

Range(s) == {s[i] : i \in 1..Len(s)}

IsPrefix(p, s) == Len(p) <= Len(s) /\ SubSeq(s, 1, Len(p)) = p

Drop(s, n) == SubSeq(s, n + 1, Len(s))

\* The characters Python's \w matches, among ASCII.
WordChars ==
    {"a","b","c","d","e","f","g","h","i","j","k","l","m","n","o","p","q","r",
     "s","t","u","v","w","x","y","z","0","1","2","3","4","5","6","7","8","9","_"}

IsWordChar(c) == c \in WordChars

\* The characters str.strip() removes.
Whitespace == {" ", "\t", "\n", "\r"}

\* re.sub(pat, rep, s) for a pattern with no metacharacter: every
\* non-overlapping occurrence, leftmost first.  An empty pattern matches
\* before every character and at the end.
RECURSIVE ReSubLiteral(_, _, _)
ReSubLiteral(pat, rep, s) ==
    IF pat = <<>>
    THEN IF s = <<>> THEN rep
         ELSE rep \o <<Head(s)>> \o ReSubLiteral(pat, rep, Tail(s))
    ELSE IF Len(s) < Len(pat) THEN s
    ELSE IF IsPrefix(pat, s) THEN rep \o ReSubLiteral(pat, rep, Drop(s, Len(pat)))
    ELSE <<Head(s)>> \o ReSubLiteral(pat, rep, Tail(s))

\* re.sub("^oh", "", s)
ReSubLeadingOh(s) == IF IsPrefix(<<"o", "h">>, s) THEN Drop(s, 2) ELSE s

\* re.sub("oh([# ]|$)", "ng", s): "oh" before '#', before ' ' or at the end;
\* the character matched by the group is replaced with it.
RECURSIVE ReSubCodaOh(_)
ReSubCodaOh(s) ==
    IF s = <<>> THEN s
    ELSE IF IsPrefix(<<"o", "h">>, s) /\ Len(s) = 2 THEN <<"n", "g">>
    ELSE IF IsPrefix(<<"o", "h">>, s) /\ s[3] \in {"#", " "}
         THEN <<"n", "g">> \o ReSubCodaOh(Drop(s, 3))
    ELSE <<Head(s)>> \o ReSubCodaOh(Tail(s))

\* Length of the longest prefix of s made of non-word characters.
RECURSIVE NonWordRun(_)
NonWordRun(s) ==
    IF s = <<>> \/ IsWordChar(Head(s)) THEN 0 ELSE 1 + NonWordRun(Tail(s))

\* re.sub(r"(\W+)\-", "\\1", s).  \W+ is greedy and backtracks: in a run of
\* non-word characters the match ends at the last '-' that is not the first
\* character of the run, and that '-' is what the replacement leaves out.
RECURSIVE ReSubNonWordDash(_)
ReSubNonWordDash(s) ==
    IF s = <<>> THEN s
    ELSE LET r == NonWordRun(s)
             J == {j \in 2..r : s[j] = "-"}
         IN  IF J = {}
             THEN <<Head(s)>> \o ReSubNonWordDash(Tail(s))
             ELSE LET j == CHOOSE x \in J : \A y \in J : y <= x
                  IN  SubSeq(s, 1, j - 1) \o ReSubNonWordDash(Drop(s, j))

\* re.sub(r"\W+$", "", s)
RECURSIVE ReSubTrailingNonWord(_)
ReSubTrailingNonWord(s) ==
    IF s = <<>> \/ IsWordChar(s[Len(s)]) THEN s
    ELSE ReSubTrailingNonWord(SubSeq(s, 1, Len(s) - 1))

\* re.sub(r"^\-", "", s)
ReSubLeadingDash(s) == IF s # <<>> /\ Head(s) = "-" THEN Tail(s) ELSE s

\* re.sub(" $", "", s)
ReSubTrailingSpace(s) ==
    IF s # <<>> /\ s[Len(s)] = " " THEN SubSeq(s, 1, Len(s) - 1) ELSE s

\* re.sub("-+", "-", s)
RECURSIVE ReSubDashRun(_)
ReSubDashRun(s) ==
    IF s = <<>> THEN s
    ELSE IF Head(s) = "-" /\ Len(s) >= 2 /\ s[2] = "-" THEN ReSubDashRun(Tail(s))
    ELSE <<Head(s)>> \o ReSubDashRun(Tail(s))

\* list[i] of Python for a 0-based, possibly negative index; IndexError
\* outside the list.
IndexError == <<"IndexError">>
PyIndex(list, i) ==
    IF 0 <= i /\ i < Len(list) THEN list[i + 1]
    ELSE IF -Len(list) <= i /\ i < 0 THEN list[Len(list) + i + 1]
    ELSE IndexError

-----------------------------------------------------------------------------
(* The syllable decomposition *)

hangul_init == 44032
hangul_fin == 55203

is_hangul(c) == c >= hangul_init /\ c <= hangul_fin

\* The classification with every non-Hangul character taken for whitespace.
CharTypeOtherAsSpace(c) == IF is_hangul(c) THEN 0 ELSE 1

\*  1: whitespace, 0: hangul, -1: non-hangul
CharType(c) == IF c = 32 THEN 1 ELSE IF is_hangul(c) THEN 0 ELSE -1

check_char_type(var_list) == [i \in 1..Len(var_list) |-> CharType(var_list[i])]

ONS ==
    <<
       <<"k", "0">>, <<"k", "k">>, <<"n", "n">>, <<"t", "0">>,
       <<"t", "t">>, <<"r", "r">>, <<"m", "m">>, <<"p", "0">>,
       <<"p", "p">>, <<"s", "0">>, <<"s", "s">>, <<"o", "h">>,
       <<"c", "0">>, <<"c", "c">>, <<"c", "h">>, <<"k", "h">>,
       <<"t", "h">>, <<"p", "h">>, <<"h", "0">>
    >>

NUC ==
    <<
       <<"a", "a">>, <<"q", "q">>, <<"y", "a">>, <<"y", "q">>,
       <<"v", "v">>, <<"e", "e">>, <<"y", "v">>, <<"y", "e">>,
       <<"o", "o">>, <<"w", "a">>, <<"w", "q">>, <<"w", "o">>,
       <<"y", "o">>, <<"u", "u">>, <<"w", "v">>, <<"w", "e">>,
       <<"w", "i">>, <<"y", "u">>, <<"x", "x">>, <<"x", "i">>,
       <<"i", "i">>
    >>

COD ==
    <<
       <<>>, <<"k", "f">>, <<"k", "k">>, <<"k", "s">>,
       <<"n", "f">>, <<"n", "c">>, <<"n", "h">>, <<"t", "f">>,
       <<"l", "l">>, <<"l", "k">>, <<"l", "m">>, <<"l", "b">>,
       <<"l", "s">>, <<"l", "t">>, <<"l", "p">>, <<"l", "h">>,
       <<"m", "f">>, <<"p", "f">>, <<"p", "s">>, <<"s", "0">>,
       <<"s", "s">>, <<"o", "h">>, <<"c", "0">>, <<"c", "h">>,
       <<"k", "h">>, <<"t", "h">>, <<"p", "h">>, <<"h", "0">>
    >>

\* df = int(integers[iElement]) - base
SyllableOffset(c) == c - 44032

\* iONS = int(math.floor(df / 588)) + 1
OnsetIndex(df) == (df \div 588) + 1

\* The nucleus index with the coda count (28) mistaken for the nucleus count.
NucleusIndexDividedBy21(df) == ((df % 588) \div 21) + 1

\* iNUC = int(math.floor((df % 588) / 28)) + 1
NucleusIndex(df) == ((df % 588) \div 28) + 1

\* iCOD = int((df % 588) % 28) + 1
CodaIndex(df) == ((df % 588) % 28) + 1

\* tmp = s1 + s2 + s3 for one Hangul code point; IndexError when a lookup
\* falls outside its table.
SyllablePhones(c) ==
    LET df == SyllableOffset(c)
        ons == PyIndex(ONS, OnsetIndex(df) - 1)
        nuc == PyIndex(NUC, NucleusIndex(df) - 1)
        cod == PyIndex(COD, CodaIndex(df) - 1)
    IN  IF IndexError \in {ons, nuc, cod} THEN IndexError
        ELSE <<"-">> \o ons \o nuc \o cod

-----------------------------------------------------------------------------
(* The syllable decomposition taken alone: check_char_type on one code     *)
(* point, then the branch of graph2phone's loop for its class.             *)

MainIdle ==
    /\ graphs = <<>> /\ rule_in = <<>> /\ rule_out = <<>> /\ pc = "idle"
    /\ iElement = 0 /\ phones = <<>> /\ romanized = <<>> /\ ipos = 0
    /\ newphones = <<>> /\ romanized_bd = <<>> /\ site = "none" /\ rule_k = 0
    /\ p2p_phones = <<>> /\ p2p_prono = <<>> /\ prono = <<>> /\ prono_prev = <<>>
    /\ prono_new = <<>> /\ identical = FALSE /\ loop_cnt = 0 /\ ret = <<>>
    /\ exc = "none" /\ run = 0 /\ first_ret = <<>>

DecIdle ==
    /\ charint = 0 /\ ctype = 0 /\ iONS = 0 /\ iNUC = 0 /\ iCOD = 0
    /\ syl = <<>> /\ dec_pc = "idle"

RbIdle ==
    /\ lines = <<>> /\ line_i = 0 /\ rb_rule_in = <<>> /\ rb_rule_out = <<>>
    /\ rb_pc = "idle"

DecInit ==
    /\ charint \in ((hangul_init - Margin)..(hangul_fin + Margin)) \cup {32}
    /\ ctype = 0 /\ iONS = 0 /\ iNUC = 0 /\ iCOD = 0 /\ syl = <<>>
    /\ dec_pc = "check_char_type"
    /\ MainIdle /\ RbIdle

Dec_Classify ==
    /\ dec_pc = "check_char_type"
    /\ ctype' = CharType(charint)
    /\ dec_pc' = "branch"
    /\ UNCHANGED <<charint, iONS, iNUC, iCOD, syl, mainVars, rbVars>>

Dec_Hangul ==
    /\ dec_pc = "branch" /\ ctype = 0
    /\ iONS' = OnsetIndex(SyllableOffset(charint))
    /\ iNUC' = NucleusIndex(SyllableOffset(charint))
    /\ iCOD' = CodaIndex(SyllableOffset(charint))
    /\ syl' = SyllablePhones(charint)
    /\ dec_pc' = "done"
    /\ UNCHANGED <<charint, ctype, mainVars, rbVars>>

Dec_Space ==
    /\ dec_pc = "branch" /\ ctype = 1
    /\ syl' = <<"#">>
    /\ dec_pc' = "done"
    /\ UNCHANGED <<charint, ctype, iONS, iNUC, iCOD, mainVars, rbVars>>

Dec_Other ==
    /\ dec_pc = "branch" /\ ctype = -1
    /\ syl' = <<>>
    /\ dec_pc' = "done"
    /\ UNCHANGED <<charint, ctype, iONS, iNUC, iCOD, mainVars, rbVars>>

DecNext == Dec_Classify \/ Dec_Hangul \/ Dec_Space \/ Dec_Other

SpecDecomp == DecInit /\ [][DecNext]_vars

\* C5: for every code point in [44032, 55203] the indices of graph2phone,
\* less the 1-based offset, lie in 0..18 (onset), 0..20 (nucleus) and 0..27
\* (coda), no lookup in ONS, NUC or COD leaves its table, and
\* 44032 + onset*588 + nucleus*28 + coda is the code point again.
C5_IndicesInBounds ==
    (dec_pc = "done" /\ charint >= 44032 /\ charint <= 55203) =>
        /\ 0 <= iONS - 1 /\ iONS - 1 < 19
        /\ 0 <= iNUC - 1 /\ iNUC - 1 < 21
        /\ 0 <= iCOD - 1 /\ iCOD - 1 < 28
        /\ iONS - 1 < Len(ONS) /\ iNUC - 1 < Len(NUC) /\ iCOD - 1 < Len(COD)
        /\ syl # IndexError
        /\ 44032 + (iONS - 1) * 588 + (iNUC - 1) * 28 + (iCOD - 1) = charint

\* The last syllable of the block, U+D7A3, has been decomposed: the largest
\* onset, nucleus and coda indices at once.
C5_Witness ==
    dec_pc = "done" /\ charint = 55203 /\ iONS = 19 /\ iNUC = 21 /\ iCOD = 28

-----------------------------------------------------------------------------
(* The conversion: graph2prono and the functions it calls *)

\* The code points tried: U+AC00 (k0 aa), U+C544 (null onset, aa),
\* U+AC15 (k0 aa and the null-consonant coda), U+B193 (nn oo h0, where
\* "oh" straddles two codes), U+C559 (null onset, aa, null-consonant coda),
\* the space, and the digit 1.
GraphChars == {44032, 50500, 44053, 45459, 50521, 32, 49}

Tok(a, b) == <<a, b, ",">>

\* The rule tables tried.  Every pattern is a literal.
\*   no rule at all;
\*   one rule that matches nothing the phone alphabets can produce;
\*   one rule merging two adjacent "aa" phones;
\*   three rules that send "aa" to "ee" in one pass and back in the next;
\*   three rules where the second reads what the first wrote, the last a deletion.
RuleTables ==
    { [in |-> <<>>, out |-> <<>>],
      [in |-> <<Tok("z", "z")>>, out |-> <<Tok("y", "y")>>],
      [in |-> <<Tok("a", "a") \o Tok("a", "a")>>, out |-> <<Tok("a", "a")>>],
      [in  |-> <<Tok("e", "e"), Tok("a", "a"), Tok("x", "x")>>,
       out |-> <<Tok("x", "x"), Tok("e", "e"), Tok("a", "a")>>],
      [in  |-> <<Tok("k", "0"), Tok("n", "n") \o Tok("a", "a"), Tok("n", "g")>>,
       out |-> <<Tok("n", "n"), Tok("e", "e"), <<>>>>] }

\* A local variable no assignment has bound yet.
Unbound == <<"<unbound>">>

\* The boundary markers left in place.
KeepBoundaries(s) == s

\* re.sub("-", "", s)
StripBoundaries(s) == ReSubLiteral(<<"-">>, <<>>, s)

\* re.sub(" ", ",", prono_prev + ",")
Annotate(s) == ReSubLiteral(<<" ">>, <<",">>, s \o <<",">>)

\* lines 385-388 of graph2prono
NormalizeInitial(s) ==
    ReSubDashRun(
        ReSubLiteral(<<"#">>, <<"-">>,
            ReSubTrailingSpace(ReSubLiteral(<<",">>, <<" ">>, s))))

\* lines 401-402 of graph2prono
NormalizePass(s) == ReSubTrailingSpace(ReSubLiteral(<<",">>, <<" ">>, s))

\* lines 324-334 of graph2phone: what follows its loop
PostProcess(s) ==
    LET a == ReSubLeadingOh(s)
        b == ReSubLiteral(<<"-", "o", "h">>, <<>>, a)
        c == ReSubLiteral(<<"o", "h", "-">>, <<"n", "g", "-">>, b)
        d == ReSubCodaOh(c)
        e == ReSubNonWordDash(d)
        f == ReSubTrailingNonWord(e)
    IN  ReSubLeadingDash(f)

\* zip(rule_in, rule_out) stops at the shorter list
NumRules == IF Len(rule_in) <= Len(rule_out) THEN Len(rule_in) ELSE Len(rule_out)

Init ==
    /\ graphs \in SeqsUpTo(GraphChars, MaxLen)
    /\ \E t \in RuleTables : rule_in = t.in /\ rule_out = t.out
    /\ pc = "graph2phone"
    /\ iElement = 0 /\ phones = <<>> /\ romanized = <<>> /\ ipos = 0
    /\ newphones = <<>> /\ romanized_bd = <<>> /\ site = "none" /\ rule_k = 0
    /\ p2p_phones = <<>> /\ p2p_prono = Unbound /\ prono = <<>>
    /\ prono_prev = <<>> /\ prono_new = <<>> /\ identical = FALSE
    /\ loop_cnt = 0 /\ ret = <<>> /\ exc = "none" /\ run = 1 /\ first_ret = <<>>
    /\ DecIdle /\ RbIdle

\* One iteration of graph2phone's loop (lines 297-321) appending tmp.
G2P_Append(tmp) ==
    /\ phones' = ReSubLiteral(<<"-", "o", "h">>, <<"-">>, phones \o tmp)
    /\ iElement' = iElement + 1
    /\ UNCHANGED <<pc, exc>>

G2P_Hangul ==
    /\ pc = "graph2phone" /\ iElement < Len(graphs)
    /\ check_char_type(graphs)[iElement + 1] = 0
    /\ LET tmp == SyllablePhones(graphs[iElement + 1])
       IN  IF tmp = IndexError
           THEN pc' = "raised" /\ exc' = "IndexError" /\ UNCHANGED <<phones, iElement>>
           ELSE G2P_Append(tmp)
    /\ UNCHANGED <<graphs, rule_in, rule_out, romanized, ipos, newphones,
                   romanized_bd, site, rule_k, p2p_phones, p2p_prono, prono,
                   prono_prev, prono_new, identical, loop_cnt, ret, run, first_ret,
                   decVars, rbVars>>

G2P_Space ==
    /\ pc = "graph2phone" /\ iElement < Len(graphs)
    /\ check_char_type(graphs)[iElement + 1] = 1
    /\ G2P_Append(<<"#">>)
    /\ UNCHANGED <<graphs, rule_in, rule_out, romanized, ipos, newphones,
                   romanized_bd, site, rule_k, p2p_phones, p2p_prono, prono,
                   prono_prev, prono_new, identical, loop_cnt, ret, run, first_ret,
                   decVars, rbVars>>

G2P_Other ==
    /\ pc = "graph2phone" /\ iElement < Len(graphs)
    /\ check_char_type(graphs)[iElement + 1] \notin {0, 1}
    /\ G2P_Append(<<>>)
    /\ UNCHANGED <<graphs, rule_in, rule_out, romanized, ipos, newphones,
                   romanized_bd, site, rule_k, p2p_phones, p2p_prono, prono,
                   prono_prev, prono_new, identical, loop_cnt, ret, run, first_ret,
                   decVars, rbVars>>

\* graph2phone leaves its loop, cleans the string and returns (lines 323-335);
\* graph2prono enters add_phone_boundary (lines 381-382, 349-350).
G2P_Return ==
    /\ pc = "graph2phone" /\ iElement >= Len(graphs)
    /\ romanized' = PostProcess(phones)
    /\ phones' = romanized'
    /\ ipos' = 0
    /\ newphones' = <<>>
    /\ pc' = "add_phone_boundary"
    /\ UNCHANGED <<graphs, rule_in, rule_out, iElement, romanized_bd, site, rule_k,
                   p2p_phones, p2p_prono, prono, prono_prev, prono_new, identical,
                   loop_cnt, ret, exc, run, first_ret, decVars, rbVars>>

\* One iteration of add_phone_boundary's loop (lines 351-362).  Python
\* indexes from 0: phones[ipos] is romanized[ipos + 1].
APB_Iter ==
    /\ pc = "add_phone_boundary" /\ ipos + 2 <= Len(romanized)
    /\ LET ch == romanized[ipos + 1]
           out1 == IF ch \in {"-", "#"} THEN newphones \o <<ch>> ELSE newphones
           pos1 == IF ch \in {"-", " ", "#"} THEN ipos + 1 ELSE ipos
       IN  IF pos1 + 1 >= Len(romanized)
           THEN \* phones[ipos + 1] is past the end
                /\ pc' = "raised" /\ exc' = "IndexError"
                /\ UNCHANGED <<newphones, ipos>>
           ELSE /\ newphones' = out1 \o <<romanized[pos1 + 1], romanized[pos1 + 2], ",">>
                /\ ipos' = pos1 + 2
                /\ UNCHANGED <<pc, exc>>
    /\ UNCHANGED <<graphs, rule_in, rule_out, iElement, phones, romanized,
                   romanized_bd, site, rule_k, p2p_phones, p2p_prono, prono,
                   prono_prev, prono_new, identical, loop_cnt, ret, run, first_ret,
                   decVars, rbVars>>

\* add_phone_boundary returns (line 364); graph2prono calls phone2prono on
\* the result (line 383).
APB_Return ==
    /\ pc = "add_phone_boundary" /\ ipos + 2 > Len(romanized)
    /\ romanized_bd' = newphones
    /\ site' = "initial"
    /\ p2p_phones' = newphones
    /\ p2p_prono' = Unbound
    /\ rule_k' = 0
    /\ pc' = "phone2prono"
    /\ UNCHANGED <<graphs, rule_in, rule_out, iElement, phones, romanized, ipos,
                   newphones, prono, prono_prev, prono_new, identical, loop_cnt,
                   ret, exc, run, first_ret, decVars, rbVars>>

\* The rule phone2prono applies in its iteration k (0-based) to string s.
ApplyRule(k, s) == ReSubLiteral(rule_in[k + 1], rule_out[k + 1], s)

\* One iteration of phone2prono's loop (lines 340-343).
P2P_Rule ==
    /\ pc = "phone2prono" /\ rule_k < NumRules
    /\ p2p_phones' = ApplyRule(rule_k, p2p_phones)
    /\ p2p_prono' = p2p_phones'
    /\ rule_k' = rule_k + 1
    /\ UNCHANGED <<graphs, rule_in, rule_out, pc, iElement, phones, romanized, ipos,
                   newphones, romanized_bd, site, prono, prono_prev, prono_new,
                   identical, loop_cnt, ret, exc, run, first_ret, decVars, rbVars>>

\* phone2prono returns prono (line 344): an UnboundLocalError when no
\* iteration has bound it.  The value goes to prono (line 383) or to
\* prono_new (line 400).
P2P_Return ==
    /\ pc = "phone2prono" /\ rule_k >= NumRules
    /\ IF p2p_prono = Unbound
       THEN /\ pc' = "raised" /\ exc' = "UnboundLocalError"
            /\ UNCHANGED <<prono, prono_new>>
       ELSE /\ exc' = exc
            /\ IF site = "initial"
               THEN pc' = "normalize" /\ prono' = p2p_prono /\ UNCHANGED prono_new
               ELSE pc' = "compare" /\ prono_new' = p2p_prono /\ UNCHANGED prono
    /\ UNCHANGED <<graphs, rule_in, rule_out, iElement, phones, romanized, ipos,
                   newphones, romanized_bd, site, rule_k, p2p_phones, p2p_prono,
                   prono_prev, identical, loop_cnt, ret, run, first_ret,
                   decVars, rbVars>>

\* Lines 385-392 of graph2prono.
Normalize ==
    /\ pc = "normalize"
    /\ prono' = NormalizeInitial(prono)
    /\ prono_prev' = prono'
    /\ identical' = FALSE
    /\ loop_cnt' = 1
    /\ pc' = "while"
    /\ UNCHANGED <<graphs, rule_in, rule_out, iElement, phones, romanized, ipos,
                   newphones, romanized_bd, site, rule_k, p2p_phones, p2p_prono,
                   prono_new, ret, exc, run, first_ret, decVars, rbVars>>

\* The loop test succeeds (line 399) and the body calls phone2prono on the
\* re-annotated prono_prev (line 400).  The source has no bound on the
\* number of passes; the model stops following a run after LoopBound.
Loop_Pass ==
    /\ pc = "while" /\ ~identical
    /\ loop_cnt <= LoopBound
    /\ site' = "loop"
    /\ p2p_phones' = Annotate(prono_prev)
    /\ p2p_prono' = Unbound
    /\ rule_k' = 0
    /\ pc' = "phone2prono"
    /\ UNCHANGED <<graphs, rule_in, rule_out, iElement, phones, romanized, ipos,
                   newphones, romanized_bd, prono, prono_prev, prono_new, identical,
                   loop_cnt, ret, exc, run, first_ret, decVars, rbVars>>

\* Lines 401-406: the pass changed nothing but boundary markers.
Compare_Identical ==
    /\ pc = "compare"
    /\ LET new == NormalizePass(prono_new)
       IN  /\ StripBoundaries(prono_prev) = StripBoundaries(new)
           /\ identical' = TRUE
           /\ prono_new' = StripBoundaries(new)
    /\ pc' = "while"
    /\ UNCHANGED <<graphs, rule_in, rule_out, iElement, phones, romanized, ipos,
                   newphones, romanized_bd, site, rule_k, p2p_phones, p2p_prono,
                   prono, prono_prev, loop_cnt, ret, exc, run, first_ret,
                   decVars, rbVars>>

\* Lines 401-404, 411-417: the pass changed the phones.
Compare_Differs ==
    /\ pc = "compare"
    /\ LET new == NormalizePass(prono_new)
       IN  /\ StripBoundaries(prono_prev) # StripBoundaries(new)
           /\ loop_cnt' = loop_cnt + 1
           /\ prono_prev' = new
           /\ prono_new' = new
    /\ pc' = "while"
    /\ UNCHANGED <<graphs, rule_in, rule_out, iElement, phones, romanized, ipos,
                   newphones, romanized_bd, site, rule_k, p2p_phones, p2p_prono,
                   prono, identical, ret, exc, run, first_ret, decVars, rbVars>>

\* The loop test fails (line 399) and graph2prono returns prono_new (line 419).
Return ==
    /\ pc = "while" /\ identical
    /\ ret' = prono_new
    /\ first_ret' = IF run = 1 THEN prono_new ELSE first_ret
    /\ pc' = "returned"
    /\ UNCHANGED <<graphs, rule_in, rule_out, iElement, phones, romanized, ipos,
                   newphones, romanized_bd, site, rule_k, p2p_phones, p2p_prono,
                   prono, prono_prev, prono_new, identical, loop_cnt, exc, run,
                   decVars, rbVars>>

\* The loop of graph2prono (lines 390-419) entered a second time, with the
\* string the first run returned as prono_prev.
Rerun ==
    /\ pc = "returned" /\ run = 1
    /\ run' = 2
    /\ prono_prev' = ret
    /\ identical' = FALSE
    /\ loop_cnt' = 1
    /\ pc' = "while"
    /\ UNCHANGED <<graphs, rule_in, rule_out, iElement, phones, romanized, ipos,
                   newphones, romanized_bd, site, rule_k, p2p_phones, p2p_prono,
                   prono, prono_new, ret, exc, first_ret, decVars, rbVars>>

Next ==
    \/ G2P_Hangul \/ G2P_Space \/ G2P_Other \/ G2P_Return
    \/ APB_Iter \/ APB_Return
    \/ P2P_Rule \/ P2P_Return
    \/ Normalize \/ Loop_Pass \/ Compare_Identical \/ Compare_Differs
    \/ Return \/ Rerun

Spec == Init /\ [][Next]_vars

-----------------------------------------------------------------------------
(* Properties of the conversion *)

\* The codes a Hangul syllable contributes to the phone string: its onset
\* unless that is the null consonant, its nucleus, and its coda, the null
\* consonant in coda position being the velar nasal.
CleanCodes(c) ==
    LET t == Tail(SyllablePhones(c))
        onset == SubSeq(t, 1, 2)
        nucleus == SubSeq(t, 3, 4)
        coda == Drop(t, 4)
    IN  (IF onset = <<"o", "h">> THEN <<>> ELSE onset)
        \o nucleus
        \o (IF coda = <<"o", "h">> THEN <<"n", "g">> ELSE coda)

RECURSIVE AllCodes(_)
AllCodes(g) ==
    IF g = <<>> THEN <<>>
    ELSE (IF is_hangul(Head(g)) THEN CleanCodes(Head(g)) ELSE <<>>) \o AllCodes(Tail(g))

\* Two-character codes separated by single spaces.
RECURSIVE SpacePairs(_)
SpacePairs(s) ==
    IF Len(s) <= 2 THEN s ELSE <<s[1], s[2], " ">> \o SpacePairs(Drop(s, 2))

Occurs(pat, s) == \E i \in 1..(Len(s) - Len(pat) + 1) : SubSeq(s, i, i + Len(pat) - 1) = pat

\* The string with rules 1..n applied in table order.
RECURSIVE RulesInOrder(_, _)
RulesInOrder(s, n) ==
    IF n = 0 THEN s
    ELSE ReSubLiteral(rule_in[n], rule_out[n], RulesInOrder(s, n - 1))

\* C1: the convergence loop never starts a pass beyond the iteration cap:
\* a run whose passes never become equal stops at the cap and fails.
C1_PassesCapped ==
    ~(pc = "phone2prono" /\ site = "loop" /\ loop_cnt > IterationCap)

\* C2: the loop run again on the string it returned returns that string.
C2_FixedPointIdempotent ==
    (pc = "returned" /\ run = 2) => ret = first_ret

\* C3: each call of phone2prono returns its argument with rule 1, then rule
\* 2, ... then rule n applied, for every table length n >= 0; with no rule
\* the argument comes back unchanged.
C3_RulesAppliedInOrder ==
    /\ ~(pc = "raised" /\ exc = "UnboundLocalError")
    /\ pc = "normalize" => prono = RulesInOrder(romanized_bd, Len(rule_in))
    /\ pc = "compare" => prono_new = RulesInOrder(Annotate(prono_prev), Len(rule_in))

\* Two Hangul syllables with exactly one space between them occur in graphs.
TwoWords ==
    \E i \in 1..(Len(graphs) - 2) :
        is_hangul(graphs[i]) /\ graphs[i + 1] = 32 /\ is_hangul(graphs[i + 2])

PlainWords ==
    /\ graphs # <<>>
    /\ \A i \in 1..Len(graphs) : is_hangul(graphs[i]) \/ graphs[i] = 32
    /\ is_hangul(graphs[1]) /\ is_hangul(graphs[Len(graphs)])
    /\ \A i \in 1..(Len(graphs) - 1) : ~(graphs[i] = 32 /\ graphs[i + 1] = 32)

\* No pattern of the rule table occurs in the annotated phone string, be it
\* the one of the initial pass or the one of the loop.
NoRuleMatches ==
    \A k \in 1..Len(rule_in) :
        /\ ~Occurs(rule_in[k], romanized_bd)
        /\ ~Occurs(rule_in[k], Annotate(NormalizeInitial(romanized_bd)))

C6_EmbeddedRunKeepsBoundary ==
    LET n == Len(graphs)
    IN  (/\ pc # "graph2phone"
         /\ n >= 3
         /\ is_hangul(graphs[1]) /\ is_hangul(graphs[n])
         /\ \A i \in 2..(n - 1) : ~is_hangul(graphs[i]) /\ graphs[i] # 32)
        => romanized = CleanCodes(graphs[1]) \o <<"-">> \o CleanCodes(graphs[n])

\* graph2phone has returned for U+AC15, the digit 1, U+C544: a coda null
\* consonant before the digit, a null onset after it.
C6_Witness ==
    /\ pc = "add_phone_boundary" /\ ipos = 0
    /\ graphs = <<44053, 49, 50500>>
    /\ romanized = <<"k", "0", "a", "a", "n", "g", "-", "a", "a">>

AllSpaces == \A i \in 1..Len(graphs) : graphs[i] = 32

\* Every pattern holds a character other than the comma, so none matches
\* the empty string or a string of commas.
NoPatternMatchesCommas ==
    \A k \in 1..Len(rule_in) : \E i \in 1..Len(rule_in[k]) : rule_in[k][i] # ","

\* C7: for an input of spaces only (the empty one included) graph2phone
\* returns the empty string, and so does graph2prono under every rule table
\* none of whose patterns matches the empty string or a string of commas.
C7_SpacesGiveEmpty ==
    AllSpaces =>
        /\ pc # "graph2phone" => romanized = <<>>
        /\ NoPatternMatchesCommas =>
              /\ pc # "raised"
              /\ pc = "returned" => ret = <<>>

\* Number of pairs of successive Hangul syllables of g with a space
\* somewhere between them.
WordGaps(g) ==
    Cardinality({i \in 1..Len(g) :
        /\ is_hangul(g[i])
        /\ \E k \in (i + 1)..Len(g) :
              /\ is_hangul(g[k])
              /\ \A j \in (i + 1)..(k - 1) : ~is_hangul(g[j])
              /\ \E j \in (i + 1)..(k - 1) : g[j] = 32})

\* Number of places of s where a '#' stands between two successive codes.
MarkedGaps(s) ==
    Cardinality({i \in 1..Len(s) :
        /\ IsWordChar(s[i])
        /\ \E k \in (i + 1)..Len(s) :
              /\ IsWordChar(s[k])
              /\ \A j \in (i + 1)..(k - 1) : ~IsWordChar(s[j])
              /\ \E j \in (i + 1)..(k - 1) : s[j] = "#"})

\* C9: wherever a space lies between two Hangul syllables, the string
\* graph2phone returns has a '#' between the codes of those syllables,
\* whatever the coda of the first.
C9_WordMarkerKept ==
    pc # "graph2phone" => MarkedGaps(romanized) = WordGaps(graphs)

\* The annotation the claim describes: every marker alone, every code as
\* its two characters and a comma.
RECURSIVE ExpectedBoundaries(_)
ExpectedBoundaries(s) ==
    IF s = <<>> THEN <<>>
    ELSE IF Head(s) \in {"-", "#"} THEN <<Head(s)>> \o ExpectedBoundaries(Tail(s))
    ELSE IF Len(s) = 1 THEN <<s[1], ",">>
    ELSE <<s[1], s[2], ",">> \o ExpectedBoundaries(Drop(s, 2))

\* C10: for every string graph2phone returns, add_phone_boundary emits each
\* two-character code once, in order, as a token of its own followed by a
\* comma, keeps every '-' and '#' outside the tokens, and drops no character.
C10_BoundariesAnnotated ==
    pc \notin {"graph2phone", "add_phone_boundary"} =>
        romanized_bd = ExpectedBoundaries(romanized)

-----------------------------------------------------------------------------
(* read_rulebook *)

\* The characters a line of the rule file is made of in the model.  A line
\* is taken without its terminator, which line.strip() removes first.
LineChars == {"a", "b", "#", "\t", " "}

\* line.strip()
RECURSIVE StripLeft(_)
StripLeft(s) ==
    IF s # <<>> /\ Head(s) \in Whitespace THEN StripLeft(Tail(s)) ELSE s

RECURSIVE StripRight(_)
StripRight(s) ==
    IF s # <<>> /\ s[Len(s)] \in Whitespace
    THEN StripRight(SubSeq(s, 1, Len(s) - 1))
    ELSE s

Strip(s) == StripRight(StripLeft(s))

\* line.split("\t"): the fields between the tabs, at least one
RECURSIVE SplitAcc(_, _)
SplitAcc(s, field) ==
    IF s = <<>> THEN <<field>>
    ELSE IF Head(s) = "\t" THEN <<field>> \o SplitAcc(Tail(s), <<>>)
    ELSE SplitAcc(Tail(s), Append(field, Head(s)))

Split(s) == SplitAcc(s, <<>>)

RbInit ==
    /\ lines \in SeqsUpTo(SeqsUpTo(LineChars, MaxLineLen), MaxLines)
    /\ line_i = 0
    /\ rb_rule_in = <<>>
    /\ rb_rule_out = <<>>
    /\ rb_pc = "loop"
    /\ MainIdle /\ DecIdle

\* The line the next iteration reads, stripped (lines 147-148).
CurrentLine == Strip(lines[line_i + 1])

\* Lines 150-151: the tests that let a line through.
IsRuleLine(line) == line # <<>> /\ line[1] # "#"

\* A blank line or a comment: nothing is appended.
RB_Skip ==
    /\ rb_pc = "loop" /\ line_i < Len(lines)
    /\ ~IsRuleLine(CurrentLine)
    /\ line_i' = line_i + 1
    /\ UNCHANGED <<lines, rb_rule_in, rb_rule_out, rb_pc, mainVars, decVars>>

\* Lines 152-157 with a second field to read.
RB_Rule ==
    /\ rb_pc = "loop" /\ line_i < Len(lines)
    /\ IsRuleLine(CurrentLine)
    /\ LET IOlist == Split(CurrentLine)
       IN  /\ Len(IOlist) >= 2
           /\ rb_rule_in' = Append(rb_rule_in, IOlist[1])
           /\ rb_rule_out' = Append(rb_rule_out, IOlist[2])
    /\ line_i' = line_i + 1
    /\ UNCHANGED <<lines, rb_pc, mainVars, decVars>>

\* Lines 152-154 with no second field: IOlist[1] raises IndexError after
\* the pattern has been appended.
RB_Raise ==
    /\ rb_pc = "loop" /\ line_i < Len(lines)
    /\ IsRuleLine(CurrentLine)
    /\ LET IOlist == Split(CurrentLine)
       IN  /\ Len(IOlist) < 2
           /\ rb_rule_in' = Append(rb_rule_in, IOlist[1])
    /\ rb_pc' = "raised"
    /\ UNCHANGED <<lines, line_i, rb_rule_out, mainVars, decVars>>

\* Line 159.
RB_Return ==
    /\ rb_pc = "loop" /\ line_i >= Len(lines)
    /\ rb_pc' = "returned"
    /\ UNCHANGED <<lines, line_i, rb_rule_in, rb_rule_out, mainVars, decVars>>

RbNext == RB_Skip \/ RB_Rule \/ RB_Raise \/ RB_Return

SpecRulebook == RbInit /\ [][RbNext]_vars

IsBlankLine(l) == \A i \in 1..Len(l) : l[i] \in Whitespace

IsCommentLine(l) == l # <<>> /\ l[1] = "#"

TabCount(l) == Cardinality({i \in 1..Len(l) : l[i] = "\t"})

TabPos(l) == CHOOSE i \in 1..Len(l) : l[i] = "\t"

\* pattern<TAB>replacement: one tab, a pattern that is not empty, no
\* other white space; the replacement may be empty.
IsPatternTabReplacement(l) ==
    /\ TabCount(l) = 1
    /\ TabPos(l) > 1
    /\ l[1] # "#"
    /\ \A i \in 1..Len(l) : i # TabPos(l) => l[i] \notin Whitespace

\* The pairs the format describes, line by line.
RECURSIVE ExpectedRules(_)
ExpectedRules(ls) ==
    IF ls = <<>> THEN <<>>
    ELSE LET l == Head(ls)
         IN  (IF IsBlankLine(l) \/ IsCommentLine(l) THEN <<>>
              ELSE <<<<SubSeq(l, 1, TabPos(l) - 1), Drop(l, TabPos(l))>>>>)
             \o ExpectedRules(Tail(ls))

\* C8: for a rule file whose lines are blank, begin with '#' or read
\* pattern<TAB>replacement, read_rulebook returns one (pattern, replacement)
\* pair for each line of the last kind, in file order, a line pattern<TAB>
\* giving the deletion rule (pattern, "").
C8_RulesLoaded ==
    (\A i \in 1..Len(lines) :
        IsBlankLine(lines[i]) \/ IsCommentLine(lines[i]) \/ IsPatternTabReplacement(lines[i]))
    => /\ rb_pc # "raised"
       /\ rb_pc = "returned" =>
             /\ Len(rb_rule_in) = Len(ExpectedRules(lines))
             /\ Len(rb_rule_out) = Len(ExpectedRules(lines))
             /\ \A k \in 1..Len(rb_rule_in) :
                   <<rb_rule_in[k], rb_rule_out[k]>> = ExpectedRules(lines)[k]

====
